---- MODULE Spec2Model ----
(***************************************************************************)
(* The chunk classification pipeline of src/process_file.py:               *)
(* process_audio dispatches one process_chunk task per chunk to a thread   *)
(* pool, records the results by index, applies apply_forgiving_heuristic   *)
(* and hands the corrected labels to reconstruct_audio.                    *)
(*                                                                         *)
(* Chunk indices are the code's 0-based indices; predictions and           *)
(* corrected_predictions are functions on 0..num_chunks-1.  Python lists   *)
(* that are only appended to (segments, indices, list.txt) are sequences.  *)
(* None is the string "None".                                              *)
(***************************************************************************)
EXTENDS Integers, Sequences, FiniteSets, TLC

VARIABLES pc, num_chunks, futures, yielded, temp_files, predictions, list_txt,
          min_surround_chunks, max_flip_length, corrected_predictions,
          loop_i, combined_audio, exports, output_file, other_run

vars == <<pc, num_chunks, futures, yielded, temp_files, predictions, list_txt,
          min_surround_chunks, max_flip_length, corrected_predictions,
          loop_i, combined_audio, exports, output_file, other_run>>

(* ------------------------------ bounds --------------------------------- *)

\* Largest number of full chunks of a run of the whole pipeline.
MaxChunks == 4

\* Longest PredictionSequence handed to the heuristic at the join point.
MaxSeqLen == 8

\* Largest min_surround_chunks / max_flip_length a direct call is given.
MaxSurround == 3

MaxFlip == 2

\* Longest PredictionSequence of the two compared runs.
MaxPairLen == 9

(* ------------------------- program constants --------------------------- *)

\* def apply_forgiving_heuristic(predictions, min_surround_chunks=3, ...)
DefaultMinSurroundChunks == 3

\* def apply_forgiving_heuristic(..., max_flip_length=2)
DefaultMaxFlipLength == 2

\* def process_audio(input_file, chunk_length_sec=10)
chunk_length_sec == 10

chunk_length_ms == chunk_length_sec * 1000

\* reconstruct_audio(corrected_predictions, chunks, desired_label='B')
desired_label == "B"

\* type_dirs = {'A': get_dir('A'), 'B': get_dir('B')}: the keys.
type_dirs == {"A", "B"}

Labels == {"A", "B", "None"}

Chunks(n) == 0 .. (n - 1)

(* --------------------------- run_inference ----------------------------- *)

\* One run of the oracle process: it cannot be started (subprocess.run
\* raises OSError), or it exits with a return code and a stdout, of which
\* run_inference reads only whether the letters A and B occur in it.
OracleRuns ==
    {[kind |-> "OSError", returncode |-> 0, stdout |-> {}]} \cup
    {[kind |-> "exit", returncode |-> rc, stdout |-> s] :
        rc \in {0, 1}, s \in SUBSET {"A", "B"}}

\* The outcome of run_inference: a returned label, or the exception that
\* leaves it (only CalledProcessError is caught).
run_inference(proc) ==
    IF proc.kind = "OSError"
    THEN [raised |-> TRUE, value |-> "OSError"]
    ELSE IF proc.returncode # 0
    THEN [raised |-> FALSE, value |-> "None"]
    ELSE IF "A" \in proc.stdout
    THEN [raised |-> FALSE, value |-> "A"]
    ELSE IF "B" \in proc.stdout
    THEN [raised |-> FALSE, value |-> "B"]
    ELSE [raised |-> FALSE, value |-> "None"]

(* ----------------------- apply_forgiving_heuristic --------------------- *)

\* Step 1, the loop body for i .. len(predictions)-1 and the final append.
\* A segment is <<label, indices>>.
RECURSIVE GroupFrom(_, _, _, _, _, _)
GroupFrom(preds, n, i, segments, current_label, current_indices) ==
    IF i >= n
    THEN Append(segments, <<current_label, current_indices>>)
    ELSE IF preds[i] = current_label
    THEN GroupFrom(preds, n, i + 1, segments, current_label,
                   Append(current_indices, i))
    ELSE GroupFrom(preds, n, i + 1,
                   Append(segments, <<current_label, current_indices>>),
                   preds[i], <<i>>)

\* Step 1: group consecutive identical labels into segments (n >= 1).
GroupSegments(preds, n) ==
    GroupFrom(preds, n, 1, <<>>, preds[0], <<0>>)

\* new_label = 'B' if label == 'A' else 'A'
FlipLabel(label) == IF label = "A" THEN "B" ELSE "A"

\* ShouldFlip without the test of the segment's own length.
ShouldFlipAnyLength(segments, i, msc, mfl) ==
    /\ segments[i][1] # segments[i + 1][1]
    /\ segments[i + 2][1] # segments[i + 1][1]
    /\ Len(segments[i][2]) >= msc
    /\ Len(segments[i + 2][2]) >= msc

\* The test of step 2 on the list as it is when segment i is visited:
\* segments[i - 1] is read after any flip already stored into it.
ShouldFlip(segments, i, msc, mfl) ==
    LET label == segments[i + 1][1]
        indices == segments[i + 1][2]
        prev_label == segments[i][1]
        prev_indices == segments[i][2]
        next_label == segments[i + 2][1]
        next_indices == segments[i + 2][2]
    IN  /\ Len(indices) <= mfl
        /\ prev_label # label
        /\ next_label # label
        /\ Len(prev_indices) >= msc
        /\ Len(next_indices) >= msc

\* Step 2: for i in range(1, len(segments) - 1), flipping in place.
\* The code's segments[i] is the sequence's element i + 1.
RECURSIVE FlipFrom(_, _, _, _)
FlipFrom(segments, i, msc, mfl) ==
    IF i >= Len(segments) - 1
    THEN segments
    ELSE IF ShouldFlip(segments, i, msc, mfl)
    THEN FlipFrom([segments EXCEPT ![i + 1] =
                      <<FlipLabel(segments[i + 1][1]), segments[i + 1][2]>>],
                  i + 1, msc, mfl)
    ELSE FlipFrom(segments, i + 1, msc, mfl)

\* Step 3: one label per index of every segment, in order.
RECURSIVE ExpandFrom(_, _)
ExpandFrom(segments, s) ==
    IF s > Len(segments)
    THEN <<>>
    ELSE [x \in 1 .. Len(segments[s][2]) |-> segments[s][1]]
         \o ExpandFrom(segments, s + 1)

\* The list a Python list of length n is, as a function on 0..n-1.
AsList(seq) == [i \in Chunks(Len(seq)) |-> seq[i + 1]]

apply_forgiving_heuristic(preds, n, msc, mfl) ==
    AsList(ExpandFrom(FlipFrom(GroupSegments(preds, n), 1, msc, mfl), 1))

(* --------------------------- reconstruct_audio ------------------------- *)

\* combined_audio is None, or the chunks concatenated so far.
NoAudio == [is_none |-> TRUE, chunks |-> <<>>]

\* AppendChunk with the operands of += exchanged.
PrependChunk(combined, i) ==
    [is_none |-> FALSE, chunks |-> <<i>> \o combined.chunks]

\* if combined_audio is None: combined_audio = chunk
\* else: combined_audio += chunk
AppendChunk(combined, i) ==
    [is_none |-> FALSE, chunks |-> Append(combined.chunks, i)]

\* len(combined_audio) in milliseconds: every chunk is audio[start:end]
\* of exactly chunk_length_ms.
Duration(combined) == Len(combined.chunks) * chunk_length_ms

\* if label == desired_label: the chunk joins the combined track.
InCombined(label) == label = desired_label

\* if label in type_dirs: the directory the chunk is exported into, or
\* "none" when the label is no key and nothing is exported.
ExportDir(label) == IF label \in type_dirs THEN label ELSE "none"

\* "if combined_audio:" is true of a segment of non-zero length.
Truthy(combined) == ~combined.is_none /\ Duration(combined) > 0

(* ------------------------------ process_audio -------------------------- *)

\* ResultSlot filling predictions in completion order.
ResultSlotByCompletion(chunk_index, completed_before) == completed_before

\* The slot of predictions the dispatch loop writes for a yielded future:
\* predictions[chunk_index] = predicted_class.
ResultSlot(chunk_index, completed_before) == chunk_index

\* AllCompleted returning at the first completed future.
AnyCompleted(done, n) == done # {} \/ n = 0

\* as_completed(futures) is exhausted once it has yielded every future.
AllCompleted(done, n) == done = Chunks(n)

Init ==
    /\ pc = "load"
    /\ num_chunks = 0
    /\ futures = <<>>
    /\ yielded = {}
    /\ temp_files = {}
    /\ predictions = <<>>
    /\ list_txt = <<>>
    /\ min_surround_chunks = DefaultMinSurroundChunks
    /\ max_flip_length = DefaultMaxFlipLength
    /\ corrected_predictions = <<>>
    /\ loop_i = 0
    /\ combined_audio = NoAudio
    /\ exports = <<>>
    /\ output_file = "absent"
    /\ other_run = <<>>

\* AudioSegment.from_wav raises: the error is printed and process_audio
\* returns.
LoadAudioFails ==
    /\ pc = "load"
    /\ pc' = "returned"
    /\ UNCHANGED <<num_chunks, futures, yielded, temp_files, predictions,
                   list_txt, min_surround_chunks, max_flip_length,
                   corrected_predictions, loop_i, combined_audio, exports,
                   output_file, other_run>>

\* The audio is loaded and cut into num_chunks full chunks, predictions is
\* [None] * num_chunks and one process_chunk task per chunk is submitted.
\* The pool has min(32, cpu_count + 4) >= 5 workers, so every task of the
\* runs modelled here has a worker as soon as it is submitted.
LoadAndSubmit ==
    /\ pc = "load"
    /\ \E n \in 0 .. MaxChunks :
          /\ num_chunks' = n
          /\ predictions' = [i \in Chunks(n) |-> "None"]
          /\ futures' = [i \in Chunks(n) |->
                            [state |-> "pending", value |-> "None"]]
    /\ pc' = "dispatch"
    /\ UNCHANGED <<yielded, temp_files, list_txt, min_surround_chunks,
                   max_flip_length, corrected_predictions, loop_i,
                   combined_audio, exports, output_file, other_run>>

\* process_chunk, a worker thread: the temporary file is created
\* (delete=False) and the chunk exported into it.
ProcessChunkExport(i) ==
    /\ futures[i].state = "pending"
    /\ temp_files' = temp_files \cup {i}
    /\ futures' = [futures EXCEPT ![i].state = "running"]
    /\ UNCHANGED <<pc, num_chunks, yielded, predictions, list_txt,
                   min_surround_chunks, max_flip_length,
                   corrected_predictions, loop_i, combined_audio, exports,
                   output_file, other_run>>

\* process_chunk: chunk.export raises inside the with block; the file,
\* created with delete=False, stays and the exception ends the task.
ProcessChunkExportRaises(i) ==
    /\ futures[i].state = "pending"
    /\ temp_files' = temp_files \cup {i}
    /\ futures' = [futures EXCEPT ![i] =
                      [state |-> "raised", value |-> "ExportError"]]
    /\ UNCHANGED <<pc, num_chunks, yielded, predictions, list_txt,
                   min_surround_chunks, max_flip_length,
                   corrected_predictions, loop_i, combined_audio, exports,
                   output_file, other_run>>

\* process_chunk: run_inference, then os.remove(temp_file_path) and the
\* return of (chunk_index, predicted_class); an exception leaving
\* run_inference skips both.
ProcessChunkInfer(i) ==
    /\ futures[i].state = "running"
    /\ \E proc \in OracleRuns :
          LET r == run_inference(proc)
          IN  IF r.raised
              THEN /\ futures' = [futures EXCEPT ![i] =
                                     [state |-> "raised", value |-> r.value]]
                   /\ UNCHANGED temp_files
              ELSE /\ futures' = [futures EXCEPT ![i] =
                                     [state |-> "returned", value |-> r.value]]
                   /\ temp_files' = temp_files \ {i}
    /\ UNCHANGED <<pc, num_chunks, yielded, predictions, list_txt,
                   min_surround_chunks, max_flip_length,
                   corrected_predictions, loop_i, combined_audio, exports,
                   output_file, other_run>>

\* The dispatch loop's body for a future as_completed yields:
\* future.result() returns, the label is stored and the log line written.
RecordResult(i) ==
    /\ pc = "dispatch"
    /\ i \notin yielded
    /\ futures[i].state = "returned"
    /\ predictions' =
          [predictions EXCEPT ![ResultSlot(i, Cardinality(yielded))] =
              futures[i].value]
    /\ list_txt' = Append(list_txt, <<i + 1, futures[i].value>>)
    /\ yielded' = yielded \cup {i}
    /\ UNCHANGED <<pc, num_chunks, futures, temp_files, min_surround_chunks,
                   max_flip_length, corrected_predictions, loop_i,
                   combined_audio, exports, output_file, other_run>>

\* future.result() re-raises the task's exception: it leaves the loop and
\* the open file, and the executor's with block waits for the other tasks.
FutureResultRaises(i) ==
    /\ pc = "dispatch"
    /\ i \notin yielded
    /\ futures[i].state = "raised"
    /\ yielded' = yielded \cup {i}
    /\ pc' = "shutdown"
    /\ UNCHANGED <<num_chunks, futures, temp_files, predictions, list_txt,
                   min_surround_chunks, max_flip_length,
                   corrected_predictions, loop_i, combined_audio, exports,
                   output_file, other_run>>

\* executor.shutdown(wait=True) returns and the exception leaves
\* process_audio.
ExecutorShutdown ==
    /\ pc = "shutdown"
    /\ \A i \in Chunks(num_chunks) :
          futures[i].state \in {"returned", "raised"}
    /\ pc' = "crashed_dispatch"
    /\ UNCHANGED <<num_chunks, futures, yielded, temp_files, predictions,
                   list_txt, min_surround_chunks, max_flip_length,
                   corrected_predictions, loop_i, combined_audio, exports,
                   output_file, other_run>>

\* The loop ends, list.txt is closed and the executor shut down.
DispatchLoopEnds ==
    /\ pc = "dispatch"
    /\ AllCompleted(yielded, num_chunks)
    /\ pc' = "heuristic"
    /\ UNCHANGED <<num_chunks, futures, yielded, temp_files, predictions,
                   list_txt, min_surround_chunks, max_flip_length,
                   corrected_predictions, loop_i, combined_audio, exports,
                   output_file, other_run>>

\* corrected_predictions = apply_forgiving_heuristic(predictions), and
\* the entry of reconstruct_audio.
HeuristicCall ==
    /\ pc = "heuristic"
    /\ num_chunks > 0
    /\ corrected_predictions' =
          apply_forgiving_heuristic(predictions, num_chunks,
                                    min_surround_chunks, max_flip_length)
    /\ loop_i' = 0
    /\ combined_audio' = NoAudio
    /\ pc' = "reconstruct"
    /\ UNCHANGED <<num_chunks, futures, yielded, temp_files, predictions,
                   list_txt, min_surround_chunks, max_flip_length, exports,
                   output_file>>

ApplyHeuristic == HeuristicCall /\ UNCHANGED other_run

\* predictions[0] of an empty list raises IndexError.
HeuristicIndexError ==
    /\ pc = "heuristic"
    /\ num_chunks = 0
    /\ pc' = "crashed_heuristic"
    /\ UNCHANGED <<num_chunks, futures, yielded, temp_files, predictions,
                   list_txt, min_surround_chunks, max_flip_length,
                   corrected_predictions, loop_i, combined_audio, exports,
                   output_file, other_run>>

\* The combined track after iteration i of reconstruct_audio's loop.
Combine(i) ==
    IF InCombined(corrected_predictions[i])
    THEN AppendChunk(combined_audio, i)
    ELSE combined_audio

\* One iteration whose label has a directory and whose export succeeds.
ReconstructExport ==
    /\ pc = "reconstruct"
    /\ loop_i < num_chunks
    /\ corrected_predictions[loop_i] \in type_dirs
    /\ combined_audio' = Combine(loop_i)
    /\ exports' = Append(exports,
                          [index |-> loop_i,
                           dir |-> ExportDir(corrected_predictions[loop_i])])
    /\ loop_i' = loop_i + 1
    /\ UNCHANGED <<pc, num_chunks, futures, yielded, temp_files, predictions,
                   list_txt, min_surround_chunks, max_flip_length,
                   corrected_predictions, output_file, other_run>>

\* One iteration whose chunk.export raises: the exception leaves
\* reconstruct_audio and process_audio.
ReconstructExportRaises ==
    /\ pc = "reconstruct"
    /\ loop_i < num_chunks
    /\ corrected_predictions[loop_i] \in type_dirs
    /\ combined_audio' = Combine(loop_i)
    /\ pc' = "crashed_export"
    /\ UNCHANGED <<num_chunks, futures, yielded, temp_files, predictions,
                   list_txt, min_surround_chunks, max_flip_length,
                   corrected_predictions, loop_i, exports, output_file,
                   other_run>>

\* One iteration whose label is not a key of type_dirs: nothing is
\* exported.
ReconstructNoDir ==
    /\ pc = "reconstruct"
    /\ loop_i < num_chunks
    /\ corrected_predictions[loop_i] \notin type_dirs
    /\ combined_audio' = Combine(loop_i)
    /\ loop_i' = loop_i + 1
    /\ UNCHANGED <<pc, num_chunks, futures, yielded, temp_files, predictions,
                   list_txt, min_surround_chunks, max_flip_length,
                   corrected_predictions, exports, output_file, other_run>>

\* return combined_audio
ReconstructReturns ==
    /\ pc = "reconstruct"
    /\ loop_i = num_chunks
    /\ pc' = "save"
    /\ UNCHANGED <<num_chunks, futures, yielded, temp_files, predictions,
                   list_txt, min_surround_chunks, max_flip_length,
                   corrected_predictions, loop_i, combined_audio, exports,
                   output_file, other_run>>

\* combined_audio.export(output_file) succeeds.
SaveCombined ==
    /\ pc = "save"
    /\ Truthy(combined_audio)
    /\ output_file' = "written"
    /\ pc' = "done"
    /\ UNCHANGED <<num_chunks, futures, yielded, temp_files, predictions,
                   list_txt, min_surround_chunks, max_flip_length,
                   corrected_predictions, loop_i, combined_audio, exports,
                   other_run>>

\* combined_audio.export raises: the error is printed.
SaveCombinedRaises ==
    /\ pc = "save"
    /\ Truthy(combined_audio)
    /\ pc' = "done"
    /\ UNCHANGED <<num_chunks, futures, yielded, temp_files, predictions,
                   list_txt, min_surround_chunks, max_flip_length,
                   corrected_predictions, loop_i, combined_audio, exports,
                   output_file, other_run>>

\* "No type B segments found after applying heuristic."
NoSegmentsFound ==
    /\ pc = "save"
    /\ ~Truthy(combined_audio)
    /\ pc' = "done"
    /\ UNCHANGED <<num_chunks, futures, yielded, temp_files, predictions,
                   list_txt, min_surround_chunks, max_flip_length,
                   corrected_predictions, loop_i, combined_audio, exports,
                   output_file, other_run>>

\* What follows the join point of process_audio.
Downstream ==
    \/ ApplyHeuristic
    \/ HeuristicIndexError
    \/ ReconstructExport
    \/ ReconstructExportRaises
    \/ ReconstructNoDir
    \/ ReconstructReturns
    \/ SaveCombined
    \/ SaveCombinedRaises
    \/ NoSegmentsFound

Next ==
    \/ LoadAudioFails
    \/ LoadAndSubmit
    \/ \E i \in Chunks(num_chunks) : ProcessChunkExport(i)
    \/ \E i \in Chunks(num_chunks) : ProcessChunkExportRaises(i)
    \/ \E i \in Chunks(num_chunks) : ProcessChunkInfer(i)
    \/ \E i \in Chunks(num_chunks) : RecordResult(i)
    \/ \E i \in Chunks(num_chunks) : FutureResultRaises(i)
    \/ ExecutorShutdown
    \/ DispatchLoopEnds
    \/ Downstream

Spec == Init /\ [][Next]_vars

(* ------------------------- the join point ------------------------------ *)

\* The state process_audio is in when the dispatch loop has ended over n
\* chunks whose tasks returned the labels preds (the log lines are taken
\* in index order).
AtJoin(n, preds) ==
    /\ pc = "heuristic"
    /\ num_chunks = n
    /\ predictions = preds
    /\ futures = [i \in Chunks(n) |->
                     [state |-> "returned", value |-> preds[i]]]
    /\ yielded = Chunks(n)
    /\ temp_files = {}
    /\ list_txt = [x \in 1 .. n |-> <<x, preds[x - 1]>>]
    /\ corrected_predictions = <<>>
    /\ loop_i = 0
    /\ combined_audio = NoAudio
    /\ exports = <<>>
    /\ output_file = "absent"

\* process_audio from the join point on, over every PredictionSequence
\* of up to MaxSeqLen labels.
InitJoin ==
    /\ \E n \in 0 .. MaxSeqLen :
          \E preds \in [Chunks(n) -> Labels] : AtJoin(n, preds)
    /\ min_surround_chunks = DefaultMinSurroundChunks
    /\ max_flip_length = DefaultMaxFlipLength
    /\ other_run = <<>>

SpecJoin == InitJoin /\ [][Downstream]_vars

\* apply_forgiving_heuristic called with every setting of its two
\* parameters.
InitHeuristic ==
    /\ \E n \in 1 .. MaxSeqLen :
          \E preds \in [Chunks(n) -> Labels] : AtJoin(n, preds)
    /\ min_surround_chunks \in 1 .. MaxSurround
    /\ max_flip_length \in 1 .. MaxFlip
    /\ other_run = <<>>

SpecHeuristic == InitHeuristic /\ [][ApplyHeuristic]_vars

(* ------------------------- two compared runs --------------------------- *)

\* The stdout of an oracle process that exits with code 0.
Stdout(s) == [kind |-> "exit", returncode |-> 0, stdout |-> s]

\* The PredictionSequence at the join point of a run whose oracle
\* processes are out[0], ..., out[n-1], none of which raises:
\* predictions[chunk_index] is what run_inference returned for that chunk.
Recorded(out, n) == [i \in Chunks(n) |-> run_inference(out[i]).value]

\* Two runs over the same chunks.  In the first the oracle prints A, B or
\* an unrecognized token for each chunk; the second differs only in that
\* it prints an unrecognized token for chunk k.  Both are at their join
\* point; other_run is the second run.
InitPair ==
    /\ \E n \in 1 .. MaxPairLen :
          \E out \in [Chunks(n) -> {Stdout({"A"}), Stdout({"B"}), Stdout({})}] :
             \E k \in Chunks(n) :
                /\ out[k] # Stdout({})
                /\ AtJoin(n, Recorded(out, n))
                /\ other_run =
                      [k |-> k,
                       predictions |->
                          Recorded([out EXCEPT ![k] = Stdout({})], n),
                       corrected_predictions |-> <<>>]
    /\ min_surround_chunks = DefaultMinSurroundChunks
    /\ max_flip_length = DefaultMaxFlipLength

\* Both runs apply the heuristic to their own PredictionSequence.
ApplyHeuristicBoth ==
    /\ HeuristicCall
    /\ other_run' =
          [other_run EXCEPT !.corrected_predictions =
              apply_forgiving_heuristic(other_run.predictions, num_chunks,
                                        min_surround_chunks, max_flip_length)]

SpecPair == InitPair /\ [][ApplyHeuristicBoth]_vars

(* ============================ the claims =============================== *)

\* The dispatch loop of process_audio has ended normally.
DispatchFinished ==
    pc \in {"heuristic", "reconstruct", "save", "done",
            "crashed_heuristic", "crashed_export"}

\* apply_forgiving_heuristic has returned.
HeuristicReturned == pc \in {"reconstruct", "save", "done", "crashed_export"}

\* reconstruct_audio has returned.
ReconstructReturned == pc \in {"save", "done"}

\* process_audio has ended, by returning or by an exception.
RunEnded ==
    pc \in {"returned", "done", "crashed_dispatch", "crashed_heuristic",
            "crashed_export"}

\* The number of log lines of list.txt that carry the 1-based index x.
LinesFor(x) == Cardinality({l \in 1 .. Len(list_txt) : list_txt[l][1] = x})

\* C1: once the dispatch loop has finished, predictions[i] is the label the
\* task submitted for chunk i returned, for every i, whatever the order in
\* which the tasks completed.
C1_ResultsByIndex ==
    DispatchFinished =>
        \A i \in Chunks(num_chunks) :
            /\ futures[i].state = "returned"
            /\ predictions[i] = futures[i].value

\* C1 witness: the loop has finished over tasks that completed out of
\* index order and returned different labels.
C1_Witness ==
    /\ DispatchFinished
    /\ num_chunks >= 2
    /\ list_txt[1][1] = num_chunks
    /\ predictions[0] # predictions[num_chunks - 1]

\* The classification of chunk i failed: the oracle exited non-zero or
\* printed an unrecognized token, could not be started, or the temporary
\* file could not be written.
ClassificationFailed(i) ==
    \/ futures[i].state = "raised"
    \/ futures[i].state = "returned" /\ futures[i].value = "None"

\* C2: a failure while classifying one chunk records Unknown at its index
\* and never aborts the run: every task's result is recorded and logged
\* and the heuristic and the reconstruction are reached.
C2_FailureNeverAborts ==
    (RunEnded /\ \E i \in Chunks(num_chunks) : ClassificationFailed(i)) =>
        /\ \A i \in Chunks(num_chunks) :
              /\ ClassificationFailed(i) => predictions[i] = "None"
              /\ LinesFor(i + 1) = 1
        /\ HeuristicReturned

\* [a, b] is a maximal run of equal labels of predictions: a segment of
\* the input.
IsSegment(a, b) ==
    /\ a <= b
    /\ \A i \in a .. b : predictions[i] = predictions[a]
    /\ a = 0 \/ predictions[a - 1] # predictions[a]
    /\ b = num_chunks - 1 \/ predictions[b + 1] # predictions[b]

SegmentLengthEndingAt(b) ==
    CHOOSE len \in 1 .. num_chunks : IsSegment(b - len + 1, b)

SegmentLengthStartingAt(a) ==
    CHOOSE len \in 1 .. num_chunks : IsSegment(a, a + len - 1)

\* The flip condition of segment [a, b], measured on the input.
EligibleOnInput(a, b) ==
    /\ a > 0
    /\ b < num_chunks - 1
    /\ b - a + 1 <= max_flip_length
    /\ SegmentLengthEndingAt(a - 1) >= min_surround_chunks
    /\ SegmentLengthStartingAt(b + 1) >= min_surround_chunks

\* C3: a segment is flipped if and only if it is interior, at most
\* max_flip_length long and, on the segmentation of the input, both
\* neighbouring segments are at least min_surround_chunks long (their
\* labels differ from its own, the segments being maximal), for every
\* setting of the two parameters; the first and last segments are never
\* flipped.
C3_FlipIffEligibleOnInput ==
    HeuristicReturned =>
        \A a, b \in Chunks(num_chunks) :
            IsSegment(a, b) =>
                \A i \in a .. b :
                    (corrected_predictions[i] # predictions[i])
                        <=> EligibleOnInput(a, b)

\* C4: every index that holds Unknown in the PredictionSequence holds
\* Unknown in the CorrectedSequence.
C4_UnknownNeverFlipped ==
    HeuristicReturned =>
        \A i \in Chunks(num_chunks) :
            predictions[i] = "None" => corrected_predictions[i] = "None"

\* C5: after reconstruct_audio has run, every chunk index has been
\* exported exactly once, into the directory of its corrected label, a
\* chunk whose corrected label is Unknown included.
C5_EveryChunkExportedOnce ==
    ReconstructReturned =>
        \A i \in Chunks(num_chunks) :
            /\ Cardinality({e \in 1 .. Len(exports) :
                               exports[e].index = i}) = 1
            /\ \A e \in 1 .. Len(exports) :
                  exports[e].index = i =>
                      exports[e].dir = corrected_predictions[i]

\* How far from the chunk whose classification failed the heuristic's
\* decisions can change: a flipped segment of at most max_flip_length
\* chunks next to a neighbour the failure cut below min_surround_chunks.
HeuristicReach == DefaultMaxFlipLength + DefaultMinSurroundChunks - 1

\* The second run gives chunk j what the first run gives it.
SameDownstream(j) ==
    /\ corrected_predictions[j] = other_run.corrected_predictions[j]
    /\ ExportDir(corrected_predictions[j]) =
          ExportDir(other_run.corrected_predictions[j])
    /\ InCombined(corrected_predictions[j]) =
          InCombined(other_run.corrected_predictions[j])

\* C6 as stated: when the second run differs only in an unrecognized
\* token for chunk k, every other chunk has the same recorded label, the
\* same corrected label, the same export directory and the same
\* membership in the combined track in both runs.
C6_OtherChunksUnaffected ==
    HeuristicReturned =>
        \A j \in Chunks(num_chunks) \ {other_run.k} :
            /\ predictions[j] = other_run.predictions[j]
            /\ SameDownstream(j)

\* C6 as amended: every other chunk has the same recorded label in both
\* runs, and the same corrected label, export directory and membership
\* when it lies more than HeuristicReach chunks from k.
C6_OtherChunksUnaffectedBeyondReach ==
    HeuristicReturned =>
        \A j \in Chunks(num_chunks) \ {other_run.k} :
            /\ predictions[j] = other_run.predictions[j]
            /\ (j - other_run.k > HeuristicReach
                \/ other_run.k - j > HeuristicReach) => SameDownstream(j)

\* C6 witness: both runs flipped a chunk that lies beyond the reach of
\* the failed chunk.
C6_Witness ==
    /\ HeuristicReturned
    /\ \E j \in Chunks(num_chunks) :
          /\ other_run.k - j > HeuristicReach
          /\ corrected_predictions[j] # predictions[j]
          /\ other_run.corrected_predictions[j] # other_run.predictions[j]
          /\ other_run.predictions[other_run.k] # predictions[other_run.k]

\* The indices whose corrected label is the desired category.
DesiredChunks ==
    {i \in Chunks(num_chunks) : corrected_predictions[i] = desired_label}

\* C7: the combined track reconstruct_audio returns is the chunks whose
\* corrected label is the desired category, each once, in strictly
\* ascending index order (so its duration is the sum of theirs), and it
\* is the empty-result indicator if and only if there is no such chunk.
C7_CombinedTrackExact ==
    ReconstructReturned =>
        LET track == combined_audio.chunks
        IN  /\ combined_audio.is_none <=> DesiredChunks = {}
            /\ \A x, y \in 1 .. Len(track) : x < y => track[x] < track[y]
            /\ {track[x] : x \in 1 .. Len(track)} = DesiredChunks
            /\ Duration(combined_audio) =
                  Cardinality(DesiredChunks) * chunk_length_ms

\* C7 witness: a returned track of several chunks, one of them flipped
\* into the desired category by the heuristic, with a chunk left out.
C7_Witness ==
    /\ ReconstructReturned
    /\ Len(combined_audio.chunks) >= 2
    /\ \E i \in DesiredChunks : predictions[i] # desired_label
    /\ DesiredChunks # Chunks(num_chunks)

\* C8: a failed export of one chunk is contained: the chunks after it are
\* still exported and the combined track is still returned.
C8_ExportFailureContained ==
    pc = "crashed_export" =>
        /\ \A j \in (loop_i + 1) .. (num_chunks - 1) :
              corrected_predictions[j] \in type_dirs =>
                  \E e \in 1 .. Len(exports) : exports[e].index = j
        /\ ReconstructReturned

\* C9: when a process_chunk call has returned or raised, its temporary
\* file no longer exists, and none remains once the dispatch is over.
C9_TempFileRemoved ==
    /\ \A i \in Chunks(num_chunks) :
          futures[i].state \in {"returned", "raised"} => i \notin temp_files
    /\ (DispatchFinished \/ pc = "crashed_dispatch") => temp_files = {}

\* C10: the heuristic and the reconstruction start only after all
\* num_chunks tasks have completed and each result has been written to
\* predictions and to one line of the audit log: no task is running and
\* exactly num_chunks lines, one per index, have been written.
C10_JoinBeforeHeuristic ==
    DispatchFinished =>
        /\ \A i \in Chunks(num_chunks) :
              /\ futures[i].state = "returned"
              /\ i \in yielded
              /\ LinesFor(i + 1) = 1
              /\ \A l \in 1 .. Len(list_txt) :
                    list_txt[l][1] = i + 1 => list_txt[l][2] = predictions[i]
        /\ Len(list_txt) = num_chunks
        /\ temp_files = {}

\* C10 witness: the heuristic is about to start after several tasks.
C10_Witness ==
    /\ pc = "heuristic"
    /\ num_chunks >= 2
    /\ list_txt[1][1] # 1

====
